---------------------------- MODULE Spec2Model ----------------------------
(***************************************************************************)
(* Model of the MLADI export validator (src/main.py): the Validator class  *)
(* (constructor, validate and its four enabled checks) and the batch loop  *)
(* of main().  File names, file texts and printed messages are modelled as *)
(* strings; the file system and the command line are chosen in Init and    *)
(* never change afterwards (the program only reads).                       *)
(***************************************************************************)
EXTENDS Integers, Sequences, FiniteSets, TLC

VARIABLES
    fs,               \* the file system at args.path: [kind, path, listing]
    argv_prefix,      \* args.prefix: the prefixes given on the command line
    now_year,         \* pd.Timestamp.now().year
    pc,               \* position of main(): "start","loop","validate","done","raised"
    todo,             \* prefixes not yet tested (list(prefixes) still to iterate)
    ordered,          \* TRUE: todo is a list (explicit), FALSE: a set (discovered)
    prefix,           \* the loop variable of main() after strip('_')
    validator,        \* the Validator under test, or NoValidator
    step,             \* number of validator functions validate() has finished
    results,          \* what each finished validator function returned
    num_errors,       \* validate()'s counter
    returned,         \* return values of validate(), one per finished prefix
    failed_patients,  \* main()'s list of failed prefixes
    stdout,           \* every print() so far, in order
    exc               \* the uncaught exception that ended the run, or NoExc

vars == <<fs, argv_prefix, now_year, pc, todo, ordered, prefix, validator,
          step, results, num_errors, returned, failed_patients, stdout, exc>>

---------------------------------------------------------------------------
(* Python string operations used by the program.                           *)

Range(s) == {s[i] : i \in 1..Len(s)}

\* str.startswith
StartsWith(s, p) == Len(p) <= Len(s) /\ SubSeq(s, 1, Len(p)) = p

\* str.endswith
EndsWith(s, p) ==
    Len(p) <= Len(s) /\ SubSeq(s, Len(s) - Len(p) + 1, Len(s)) = p

\* t in s, for strings
Contains(s, t) ==
    \E i \in 1..(Len(s) + 1) : i + Len(t) - 1 <= Len(s) /\ SubSeq(s, i, i + Len(t) - 1) = t

RECURSIVE LStrip(_, _)
LStrip(s, c) ==
    IF Len(s) > 0 /\ SubSeq(s, 1, 1) = c THEN LStrip(SubSeq(s, 2, Len(s)), c) ELSE s

RECURSIVE RStrip(_, _)
RStrip(s, c) ==
    IF Len(s) > 0 /\ SubSeq(s, Len(s), Len(s)) = c
    THEN RStrip(SubSeq(s, 1, Len(s) - 1), c) ELSE s

\* str.strip(c) for a one-character c
Strip(s, c) == RStrip(LStrip(s, c), c)

\* position of the first c in s at or after position i, or 0
RECURSIVE Find(_, _, _)
Find(s, c, i) ==
    IF i > Len(s) THEN 0
    ELSE IF SubSeq(s, i, i) = c THEN i ELSE Find(s, c, i + 1)

\* str.split(c) for a one-character c: always at least one piece
RECURSIVE Split(_, _)
Split(s, c) ==
    LET k == Find(s, c, 1)
    IN  IF k = 0 THEN <<s>>
        ELSE <<SubSeq(s, 1, k - 1)>> \o Split(SubSeq(s, k + 1, Len(s)), c)

\* sep.join(parts)
RECURSIVE Join(_, _)
Join(parts, sep) ==
    IF Len(parts) = 0 THEN ""
    ELSE IF Len(parts) = 1 THEN parts[1]
    ELSE parts[1] \o sep \o Join(Tail(parts), sep)

\* seq[:n]
Take(seq, n) == SubSeq(seq, 1, IF n < Len(seq) THEN n ELSE Len(seq))

\* file.readline() at offset pos (1-based): through the newline, or to the end
ReadLine(text, pos) ==
    LET k == Find(text, "\n", pos)
    IN  IF pos > Len(text) THEN ""
        ELSE IF k = 0 THEN SubSeq(text, pos, Len(text))
        ELSE SubSeq(text, pos, k)

---------------------------------------------------------------------------
(* The schema.                                                             *)

\* the list without its first entry
expected_file_suffixes_without_enum ==
    << "enumeration.csv", "enumerationvalue.csv", "numeric.csv",
       "numericvalue.csv", "wave.csv", "wavesample.csv", "ce.csv", "cs_ce.csv",
       "cs.csv", "icd.csv", "lab.csv", "loc.csv", "meds.csv", "io.csv",
       "patient.csv", "micro.csv", "suscep.csv", "dialysis_ce.csv",
       "dl_details_recent.csv", "surg.csv", "alert.csv", "demo.csv" >>

expected_file_suffixes ==
    << "enum.csv", "enumeration.csv", "enumerationvalue.csv", "numeric.csv",
       "numericvalue.csv", "wave.csv", "wavesample.csv", "ce.csv", "cs_ce.csv",
       "cs.csv", "icd.csv", "lab.csv", "loc.csv", "meds.csv", "io.csv",
       "patient.csv", "micro.csv", "suscep.csv", "dialysis_ce.csv",
       "dl_details_recent.csv", "surg.csv", "alert.csv", "demo.csv" >>

\* the dict of validate_no_empty_dates, in insertion order
file_columns_to_check ==
    << [suffix |-> "ce",      cols |-> <<"DATE">>],
       [suffix |-> "cs",      cols |-> <<"FORM_DATE">>],
       [suffix |-> "cs_ce",   cols |-> <<"date">>],
       [suffix |-> "demo",    cols |-> <<"REG_DATE", "DISCH_DATE">>],
       [suffix |-> "icd",     cols |-> <<"DATE">>],
       [suffix |-> "io",      cols |-> <<"DATE">>],
       [suffix |-> "lab",     cols |-> <<"EVENT_DATE", "VALID_DATE">>],
       [suffix |-> "loc",     cols |-> <<"BEG_DATE", "END_DATE">>],
       [suffix |-> "meds",    cols |-> <<"CHART_DATE">>],
       [suffix |-> "patient", cols |-> <<"Timestamp">>] >>

\* the lower limit of the discharge year
MinYear == 2000

---------------------------------------------------------------------------
(* The file system seen through pathlib: kind is "missing", "file" or      *)
(* "dir".  A directory entry is [name, is_file, text]; listing is the      *)
(* directory in the order the file system iterates it.                     *)

NoValidator == [none |-> TRUE]
NoExc == ""

\* path.exists()
PathExists(f) == f.kind # "missing"

\* path.is_dir()
PathIsDir(f) == f.kind = "dir"

\* path.iterdir() / path.glob(...): nothing to iterate unless a directory
Entries(f) == IF f.kind = "dir" THEN f.listing ELSE <<>>

\* path.glob(f"{prefix}*"): the entries whose name starts with prefix
GlobPrefix(f, p) == SelectSeq(Entries(f), LAMBDA e : StartsWith(e.name, p))

\* path.glob('*.csv')
GlobCsv(f) == SelectSeq(Entries(f), LAMBDA e : EndsWith(e.name, ".csv"))

\* the entry at path / name, as a set of at most one element
Lookup(f, name) == {e \in Range(Entries(f)) : e.name = name}

---------------------------------------------------------------------------
(* pandas.read_csv on the plain CSV texts of this model: comma separated,  *)
(* no quotes or escapes, no row longer than the header.                    *)

\* the values read_csv reads as missing (those the model's texts can hold)
NaValues == {"", "NA", "NaN", "nan", "null", "NULL", "N/A"}

Digits == <<"0", "1", "2", "3", "4", "5", "6", "7", "8", "9">>

IsDigit(c) == \E d \in 1..10 : Digits[d] = c

DigitVal(c) == (CHOOSE d \in 1..10 : Digits[d] = c) - 1

AllDigits(s) == \A i \in 1..Len(s) : IsDigit(SubSeq(s, i, i))

RECURSIVE ParseNat(_)
ParseNat(s) ==
    IF Len(s) = 0 THEN 0
    ELSE 10 * ParseNat(SubSeq(s, 1, Len(s) - 1)) + DigitVal(SubSeq(s, Len(s), Len(s)))

\* whether the date parser of read_csv turns s into a Timestamp: the texts of
\* the model hold ISO dates (YYYY-MM-DD) or words that are no date at all
IsDate(s) ==
    /\ Len(s) = 10
    /\ SubSeq(s, 5, 5) = "-" /\ SubSeq(s, 8, 8) = "-"
    /\ AllDigits(SubSeq(s, 1, 4)) /\ AllDigits(SubSeq(s, 6, 7)) /\ AllDigits(SubSeq(s, 9, 10))
    /\ ParseNat(SubSeq(s, 6, 7)) \in 1..12
    /\ ParseNat(SubSeq(s, 9, 10)) \in 1..31
    /\ ParseNat(SubSeq(s, 1, 4)) \in 1678..2261

\* Timestamp.year
YearOf(s) == ParseNat(SubSeq(s, 1, 4))

\* the lines read_csv parses: blank lines are skipped
CsvLines(text) == SelectSeq(Split(text, "\n"), LAMBDA l : l # "")

\* position of col in the header, or 0
ColumnIndex(df, col) ==
    IF \E i \in 1..Len(df.columns) : df.columns[i] = col
    THEN CHOOSE i \in 1..Len(df.columns) : df.columns[i] = col
    ELSE 0

\* the raw value of row r in column number c; a short row is padded with missing
Cell(df, r, c) == IF c <= Len(df.rows[r]) THEN df.rows[r][c] ELSE ""

\* pd.isnull(df[col]) has at least one True
HasNull(df, col) ==
    \E r \in 1..Len(df.rows) : Cell(df, r, ColumnIndex(df, col)) \in NaValues

\* a parse_dates column becomes datetime64 iff every present value parses;
\* otherwise read_csv leaves it as it was read (object)
IsDatetimeColumn(df, col) ==
    \A r \in 1..Len(df.rows) :
        LET v == Cell(df, r, ColumnIndex(df, col))
        IN  v \in NaValues \/ IsDate(v)

\* pd.read_csv(path / name, escapechar='\\', parse_dates=dates)
read_csv(f, name, dates) ==
    LET found == Lookup(f, name)
        full  == f.path \o "/" \o name
        e     == CHOOSE x \in found : TRUE
        lines == CsvLines(e.text)
        hdr   == Split(lines[1], ",")
    IN  IF found = {}
        THEN [raised |-> "FileNotFoundError",
              msg |-> "[Errno 2] No such file or directory: '" \o full \o "'"]
        ELSE IF ~e.is_file
        THEN [raised |-> "IsADirectoryError",
              msg |-> "[Errno 21] Is a directory: '" \o full \o "'"]
        ELSE IF Len(lines) = 0
        THEN [raised |-> "EmptyDataError", msg |-> "No columns to parse from file"]
        ELSE IF \E i \in 1..Len(dates) : dates[i] \notin Range(hdr)
        THEN [raised |-> "ValueError",
              msg |-> "Missing column provided to 'parse_dates': '"
                      \o (CHOOSE d \in Range(dates) : d \notin Range(hdr)) \o "'"]
        ELSE [raised |-> NoExc, msg |-> "",
              columns |-> hdr,
              rows |-> [r \in 1..(Len(lines) - 1) |-> Split(lines[r + 1], ",")]]

---------------------------------------------------------------------------
(* class Validator                                                         *)

\* what a validator function returns: True, or a list of error strings
Pass == [ok |-> TRUE, errors |-> <<>>]
Fail(errors) == [ok |-> FALSE, errors |-> errors]

\* __init__ without the assert on an empty directory
PreconditionsWithoutEmptyCheck(f, p) ==
    IF ~(f.kind # "missing") THEN "AssertionError: Path does not exist: " \o f.path
    ELSE IF ~(f.kind = "dir") THEN "AssertionError: Path is not a directory: " \o f.path
    ELSE IF Len(p) = 0 THEN "IndexError: string index out of range"
    ELSE IF SubSeq(p, Len(p), Len(p)) = "_"
    THEN "AssertionError: Prefix should not end in underscore: " \o p
    ELSE NoExc

\* the four assert statements of __init__, in order: the exception the first
\* failing one raises (prefix[-1] of an empty prefix is an IndexError), or NoExc
Preconditions(f, p) ==
    IF ~PathExists(f) THEN "AssertionError: Path does not exist: " \o f.path
    ELSE IF ~PathIsDir(f) THEN "AssertionError: Path is not a directory: " \o f.path
    ELSE IF Len(Entries(f)) = 0 THEN "AssertionError: Path is empty: " \o f.path
    ELSE IF Len(p) = 0 THEN "IndexError: string index out of range"
    ELSE IF SubSeq(p, Len(p), Len(p)) = "_"
    THEN "AssertionError: Prefix should not end in underscore: " \o p
    ELSE NoExc

\* self.expected_filenames
ExpectedFilenames(p) ==
    [i \in 1..Len(expected_file_suffixes) |-> p \o "_" \o expected_file_suffixes[i]]

\* self.all_matching_files
AllMatchingFiles(f, p) == SelectSeq(GlobPrefix(f, p), LAMBDA e : e.is_file)

\* self.all_valid_files_on_disk
AllValidFilesOnDisk(matching, expected) ==
    SelectSeq(matching, LAMBDA e : e.name \in Range(expected))

\* Validator(path, prefix): the exception raised, or the new object
Validator__init__(f, p) ==
    LET raised   == Preconditions(f, p)
        expected == ExpectedFilenames(p)
        matching == AllMatchingFiles(f, p)
    IN  IF raised # NoExc
        THEN [raised |-> raised, self |-> NoValidator]
        ELSE [raised |-> NoExc,
              self |-> [path |-> f.path, prefix |-> p,
                        expected_filenames |-> expected,
                        all_matching_files |-> matching,
                        all_valid_files_on_disk |->
                            AllValidFilesOnDisk(matching, expected)]]

\* [file.name for file in files]
Names(files) == [i \in 1..Len(files) |-> files[i].name]

\* unexpected_files_on_disk of validate_filenames
UnexpectedFilesOnDisk(self) ==
    SelectSeq(self.all_matching_files,
              LAMBDA e : e.name \notin Range(self.expected_filenames))

validate_filenames(self) ==
    LET unexpected == UnexpectedFilesOnDisk(self)
    IN  IF Len(unexpected) > 0
        THEN Fail(<<"Unexpected files found: " \o Join(Names(unexpected), ", ")>>)
        ELSE Pass

\* first_line == second_line of validate_no_double_headers
FirstTwoLinesEqual(text) ==
    LET first_line  == ReadLine(text, 1)
        second_line == ReadLine(text, 1 + Len(first_line))
    IN  first_line = second_line

validate_no_double_headers(self) ==
    LET doubled == SelectSeq(self.all_valid_files_on_disk,
                             LAMBDA e : FirstTwoLinesEqual(e.text))
        errors  == [i \in 1..Len(doubled) |->
                        "Double header row found in file: " \o doubled[i].name]
    IN  IF Len(errors) > 0 THEN Fail(errors) ELSE Pass

\* the comparison of line 104 on a Timestamp of the given year
YearOutOfRange(year, now) == year < MinYear \/ year > now

\* validate_discharge_date: [raised, result]
validate_discharge_date(f, self, now) ==
    LET df == read_csv(f, self.prefix \o "_demo.csv", <<"DISCH_DATE">>)
        discharge_date == Cell(df, 1, ColumnIndex(df, "DISCH_DATE"))
    IN  IF df.raised # NoExc
        THEN [raised |-> df.raised \o ": " \o df.msg, result |-> Pass]
        ELSE IF Len(df.rows) = 0
        THEN [raised |-> "KeyError: 0", result |-> Pass]
        ELSE IF ~IsDatetimeColumn(df, "DISCH_DATE")
        THEN [raised |-> "AttributeError: object has no attribute 'year'",
              result |-> Pass]
        ELSE IF discharge_date \in NaValues
        \* NaT.year is nan, and both comparisons with nan are False
        THEN [raised |-> NoExc, result |-> Pass]
        ELSE IF YearOutOfRange(YearOf(discharge_date), now)
        THEN [raised |-> NoExc,
              result |-> Fail(<<"Discharge date is invalid: " \o discharge_date
                                \o " 00:00:00">>)]
        ELSE [raised |-> NoExc, result |-> Pass]

\* one iteration of the loop of validate_no_empty_dates over table number t:
\* the KeyError of df[col] for an absent column, or the errors appended
EmptyDatesOfTable(f, self, t) ==
    LET entry == file_columns_to_check[t]
        name  == self.prefix \o "_" \o entry.suffix \o ".csv"
        df    == read_csv(f, name, <<>>)
        cols  == entry.cols
        \* the columns before the first absent one are still examined
        absent == {i \in 1..Len(cols) : ColumnIndex(df, cols[i]) = 0}
        upto  == IF absent = {} THEN Len(cols)
                 ELSE (CHOOSE i \in absent : \A j \in absent : i <= j) - 1
        nulls == SelectSeq(SubSeq(cols, 1, upto), LAMBDA c : HasNull(df, c))
    IN  IF df.raised # NoExc
        THEN [raised |-> NoExc,
              errors |-> <<"Error reading " \o name \o ": " \o df.msg>>]
        ELSE [raised |-> IF absent = {} THEN NoExc
                         ELSE "KeyError: '" \o cols[upto + 1] \o "'",
              errors |-> [i \in 1..Len(nulls) |->
                            "Empty dates found in " \o nulls[i] \o " column of " \o name]]

\* the loop from table number t on, with the errors collected so far
RECURSIVE EmptyDatesFrom(_, _, _, _)
EmptyDatesFrom(f, self, t, errors) ==
    IF t > Len(file_columns_to_check)
    THEN [raised |-> NoExc, result |-> IF Len(errors) > 0 THEN Fail(errors) ELSE Pass]
    ELSE LET one == EmptyDatesOfTable(f, self, t)
         IN  IF one.raised # NoExc
             THEN [raised |-> one.raised, result |-> Pass]
             ELSE EmptyDatesFrom(f, self, t + 1, errors \o one.errors)

\* validate_no_empty_dates: [raised, result]
validate_no_empty_dates(f, self) == EmptyDatesFrom(f, self, 1, <<>>)

---------------------------------------------------------------------------
(* The inputs: directories and command lines the run is started on.        *)

\* how many calendar years after 2026 the run may take place
YearSpan == 1

NowYears == 2026..(2026 + YearSpan)

PathArg == "export"

File(name, text) == [name |-> name, is_file |-> TRUE, text |-> text]
SubDir(name) == [name |-> name, is_file |-> FALSE, text |-> ""]

\* a table of the null-date mapping with one fully populated row
GoodText(t) ==
    LET cols == file_columns_to_check[t].cols
    IN  Join(cols, ",") \o "\n"
        \o Join([i \in 1..Len(cols) |-> "2015-03-01"], ",") \o "\n"

GoodFile(p, t) == File(p \o "_" \o file_columns_to_check[t].suffix \o ".csv", GoodText(t))

\* position of the demo and lab tables in file_columns_to_check
DemoTable == CHOOSE t \in 1..Len(file_columns_to_check) : file_columns_to_check[t].suffix = "demo"
LabTable == CHOOSE t \in 1..Len(file_columns_to_check) : file_columns_to_check[t].suffix = "lab"

\* every table of the mapping for prefix p, fully populated
CompleteExport(p) == [t \in 1..Len(file_columns_to_check) |-> GoodFile(p, t)]

\* the mapping's tables other than demo and lab
RestOfExport(p) ==
    SelectSeq(CompleteExport(p),
              LAMBDA e : e.name \notin {p \o "_demo.csv", p \o "_lab.csv"})

DemoTexts ==
    { "REG_DATE,DISCH_DATE\n2014-01-01,2015-03-01\n",
      "REG_DATE,DISCH_DATE\n1999-01-01,1999-12-31\n",
      "REG_DATE,DISCH_DATE\n1999-12-01,2000-01-01\n",
      "REG_DATE,DISCH_DATE\n2014-01-01,2027-06-01\n",
      "REG_DATE,DISCH_DATE\n2014-01-01,unknown\n",
      "REG_DATE,DISCH_DATE\n2014-01-01,\n",
      "REG_DATE,DISCH_DATE\n",
      "REG_DATE\n2014-01-01\n",
      "",
      "REG_DATE,DISCH_DATE\nREG_DATE,DISCH_DATE\n2014-01-01,2015-03-01\n" }

LabTexts ==
    { "EVENT_DATE,VALID_DATE\n2015-01-01,2015-01-02\n",
      "EVENT_DATE,VALID_DATE\n2015-01-01,\n",
      "EVENT_DATE,VALID_DATE\n,2015-01-02\n2015-01-03,NA\n",
      "EVENT_DATE\n2015-01-01\n",
      "",
      "\n\n",
      "EVENT_DATE,VALID_DATE\nEVENT_DATE,VALID_DATE",
      "EVENT_DATE,VALID_DATE\nEVENT_DATE,VALID_DATE\n" }

\* entries beside the export of A_1: an unexpected file, the enum table, a
\* table of patient A_10, a subdirectory, a directory named like a table,
\* and a file of no patient
Extras ==
    << File("A_1_junk.csv", "x\n1\n"),
       File("A_1_enum.csv", "id,name\n1,a\n"),
       File("A_10_lab.csv", GoodText(LabTable)),
       SubDir("A_1_sub"),
       File("README.txt", "notes\n") >>

ExtraChoices == SUBSET (1..Len(Extras))

PickExtras(S) == SelectSeq(Extras, LAMBDA e : \E i \in S : Extras[i] = e)

Optional(present, entry) == IF present THEN <<entry>> ELSE <<>>

ArgLists ==
    { <<>>, <<"A_1">>, <<"_A_1_">>, <<"A_1", "A_1">>, <<"A_10", "A_1">>,
      <<"_", "A_1">>, <<"B_2">> }

\* the batch scenario: prefix A fully valid, prefix B without a demo table
\* and with the unexpected file B_junk.csv
ScenarioListing ==
    CompleteExport("A") \o << File("B_lab.csv", GoodText(LabTable)),
                              File("B_junk.csv", "x\n1\n") >>

Dir(listing) == [kind |-> "dir", path |-> PathArg, listing |-> listing]

\* directories that vary the contents of the tables of A_1
ContentDirs ==
    { Dir(Optional(d # "absent", File("A_1_demo.csv", d))
          \o Optional(l # "absent", File("A_1_lab.csv", l))
          \o (IF rest THEN RestOfExport("A_1") ELSE <<>>)) :
        d \in DemoTexts \cup {"absent"}, l \in LabTexts \cup {"absent"},
        rest \in BOOLEAN }

\* directories that vary which files are present
InventoryDirs ==
    { Dir(Optional(demo, GoodFile("A_1", DemoTable))
          \o <<GoodFile("A_1", LabTable)>> \o RestOfExport("A_1") \o PickExtras(S)) :
        demo \in BOOLEAN, S \in ExtraChoices }

\* paths that are no directory
BadPaths ==
    { [kind |-> k, path |-> PathArg, listing |-> <<>>] : k \in {"missing", "file"} }

---------------------------------------------------------------------------
(* main() and Validator.validate() as a state machine.                     *)

Init ==
    /\ \/ fs \in ContentDirs /\ argv_prefix \in {<<>>, <<"A_1">>}
       \/ fs \in InventoryDirs /\ argv_prefix \in ArgLists
       \/ fs \in BadPaths /\ argv_prefix \in ArgLists
       \/ fs = Dir(ScenarioListing) /\ argv_prefix \in {<<>>, <<"A", "B">>}
    /\ now_year \in NowYears
    /\ pc = "start"
    /\ todo = <<>>
    /\ ordered = TRUE
    /\ prefix = ""
    /\ validator = NoValidator
    /\ step = 0
    /\ results = <<>>
    /\ num_errors = 0
    /\ returned = <<>>
    /\ failed_patients = <<>>
    /\ stdout = <<>>
    /\ exc = NoExc

\* repr() of a list of strings
ListRepr(l) == "[" \o Join([i \in 1..Len(l) |-> "'" \o l[i] \o "'"], ", ") \o "]"

\* '_'.join(name.split('_')[:2])
PrefixOfName(name) == Join(Take(Split(name, "_"), 2), "_")

\* the elements of seq without repetition, in order of first occurrence
RECURSIVE Dedup(_)
Dedup(seq) ==
    IF Len(seq) = 0 THEN <<>>
    ELSE LET front == Dedup(SubSeq(seq, 1, Len(seq) - 1))
             last  == seq[Len(seq)]
         IN  IF last \in Range(front) THEN front ELSE Append(front, last)

\* set([... for p in path.glob('*.csv')]), held as a sequence without repetition
DiscoverPrefixes(f) ==
    LET found == GlobCsv(f)
    IN  Dedup([i \in 1..Len(found) |-> PrefixOfName(found[i].name)])

\* main(), lines 222-236: the initial printout and the list of prefixes
AssemblePrefixes ==
    /\ pc = "start"
    /\ stdout' = stdout \o
          << "", "Path is: " \o fs.path,
             "Prefix is: " \o (IF Len(argv_prefix) > 0 THEN ListRepr(argv_prefix)
                               ELSE "[not provided / test all patients in folder]"),
             "" >>
    /\ IF Len(argv_prefix) = 0
       THEN todo' = DiscoverPrefixes(fs) /\ ordered' = FALSE
       ELSE todo' = argv_prefix /\ ordered' = TRUE
    /\ pc' = "loop"
    /\ UNCHANGED <<fs, argv_prefix, now_year, prefix, validator, step, results,
                   num_errors, returned, failed_patients, exc>>

\* main(), lines 237-240, for one prefix still to test: a list is iterated in
\* order, a set in whatever order list() gives it
Construct ==
    /\ pc = "loop"
    /\ \E i \in 1..Len(todo) :
        LET stripped == Strip(todo[i], "_")
            made     == Validator__init__(fs, stripped)
        IN  /\ ordered => i = 1
            /\ todo' = SubSeq(todo, 1, i - 1) \o SubSeq(todo, i + 1, Len(todo))
            /\ prefix' = stripped
            /\ stdout' = Append(stdout, "Testing patient " \o stripped \o " in " \o fs.path)
            /\ validator' = made.self
            /\ step' = 0
            /\ results' = <<>>
            /\ num_errors' = 0
            /\ IF made.raised # NoExc
               THEN pc' = "raised" /\ exc' = made.raised
               ELSE pc' = "validate" /\ exc' = exc
    /\ UNCHANGED <<fs, argv_prefix, now_year, ordered, returned, failed_patients>>

\* validate(), lines 80-86, for validator function number k + 1: its banner,
\* then either its exception leaving validate() and main(), or its verdict
RunCheck(k, name, banner, outcome) ==
    /\ IF outcome.raised # NoExc
       THEN /\ pc' = "raised"
            /\ exc' = outcome.raised
            /\ stdout' = Append(stdout, banner)
            /\ UNCHANGED <<step, results, num_errors>>
       ELSE /\ pc' = pc
            /\ exc' = exc
            /\ step' = k + 1
            /\ results' = Append(results, [check |-> name, result |-> outcome.result])
            /\ IF outcome.result.ok
               THEN /\ stdout' = stdout \o <<banner, "Passed">>
                    /\ num_errors' = num_errors
               ELSE /\ stdout' = stdout \o
                        <<banner, "Failed\n" \o Join(outcome.result.errors, "\n")>>
                    /\ num_errors' = num_errors + 1
    /\ UNCHANGED <<fs, argv_prefix, now_year, todo, ordered, prefix, validator,
                   returned, failed_patients>>

CheckFilenames ==
    /\ pc = "validate"
    /\ step = 0
    /\ RunCheck(0, "validate_filenames", "Verifying expected filenames...",
                [raised |-> NoExc, result |-> validate_filenames(validator)])

CheckDischargeDate ==
    /\ pc = "validate"
    /\ step = 1
    /\ RunCheck(1, "validate_discharge_date", "Verifying discharge date...",
                validate_discharge_date(fs, validator, now_year))

CheckNoDoubleHeaders ==
    /\ pc = "validate"
    /\ step = 2
    /\ RunCheck(2, "validate_no_double_headers", "Verifying no double headers...",
                [raised |-> NoExc, result |-> validate_no_double_headers(validator)])

CheckNoEmptyDates ==
    /\ pc = "validate"
    /\ step = 3
    /\ RunCheck(3, "validate_no_empty_dates", "Verifying no empty dates...",
                validate_no_empty_dates(fs, validator))

\* the number of validator functions in validate()
NumChecks == 4

\* validate(), lines 88-94, and main(), lines 241-244
ValidateReturn ==
    /\ pc = "validate"
    /\ step = NumChecks
    /\ stdout' = stdout \o
          << IF num_errors = 0 THEN "All tests passed."
             ELSE ToString(num_errors) \o " tests failed.", "" >>
    /\ returned' = Append(returned, [prefix |-> prefix, passed |-> (num_errors = 0)])
    /\ failed_patients' =
          IF num_errors = 0 THEN failed_patients ELSE Append(failed_patients, prefix)
    /\ pc' = "loop"
    /\ UNCHANGED <<fs, argv_prefix, now_year, todo, ordered, prefix, validator,
                   step, results, num_errors, exc>>

\* main(), lines 246-251
MainSummary ==
    /\ pc = "loop"
    /\ todo = <<>>
    /\ stdout' = stdout \o
          << "Summary\n-------",
             IF Len(failed_patients) = 0 THEN "All patients passed."
             ELSE ToString(Len(failed_patients)) \o " patients failed: "
                  \o Join(failed_patients, ", "),
             "" >>
    /\ pc' = "done"
    /\ UNCHANGED <<fs, argv_prefix, now_year, todo, ordered, prefix, validator,
                   step, results, num_errors, returned, failed_patients, exc>>

Next ==
    \/ AssemblePrefixes
    \/ Construct
    \/ CheckFilenames
    \/ CheckDischargeDate
    \/ CheckNoDoubleHeaders
    \/ CheckNoEmptyDates
    \/ ValidateReturn
    \/ MainSummary

Spec == Init /\ [][Next]_vars

---------------------------------------------------------------------------
(* Vocabulary of the properties.                                           *)

\* a Validator was constructed for the current prefix
Constructed == validator # NoValidator

\* the run is over: main() returned or an exception left it
RunOver == pc \in {"done", "raised"}

\* validate() of the current prefix is over: it returned, or an exception left it
ValidateReturned == Constructed /\ pc \in {"loop", "done"} /\ step = NumChecks
ValidateRaised == Constructed /\ pc = "raised"
ValidateOver == ValidateReturned \/ ValidateRaised

\* what validate() of the current prefix returned
ReturnValue == returned[Len(returned)].passed

\* validator function number k (1..4) has acted: it returned, or it raised
Acted(k) == Constructed /\ (step >= k \/ (pc = "raised" /\ step = k - 1))

\* some line of stdout starts with the given text
Printed(text) == \E i \in 1..Len(stdout) : StartsWith(stdout[i], text)

SummaryEmitted == Printed("Summary")

\* the prefixes main() has started to test
Attempted ==
    {returned[i].prefix : i \in 1..Len(returned)}
        \cup (IF pc \in {"validate", "raised"} /\ Printed("Testing patient ")
              THEN {prefix} ELSE {})

\* the order validate() declares
DeclaredOrder ==
    << "validate_filenames", "validate_discharge_date",
       "validate_no_double_headers", "validate_no_empty_dates" >>

\* the catalog of the specification's section 6
CanonicalCatalog ==
    { "enumeration", "enumerationvalue", "numeric", "numericvalue", "wave",
      "wavesample", "ce", "cs_ce", "cs", "icd", "lab", "loc", "meds", "io",
      "patient", "micro", "suscep", "dialysis_ce", "dl_details_recent", "surg",
      "alert", "demo" }

\* name is {p}_{suffix}.csv for a suffix of the catalog
Conformant(name, p, catalog) == \E x \in catalog : name = p \o "_" \o x \o ".csv"

\* the regular files matching prefix p whose name is outside the catalog
Offending(p, catalog) ==
    {e \in Range(Entries(fs)) :
        e.is_file /\ StartsWith(e.name, p) /\ ~Conformant(e.name, p, catalog)}

\* what the filename-inventory check of the current prefix returned
FilenamesResult == results[1].result

\* the filename-inventory check decides by the given catalog, and on failure
\* gives one message naming every offending file
FilenamesDecidedBy(catalog) ==
    /\ FilenamesResult.ok <=> Offending(prefix, catalog) = {}
    /\ ~FilenamesResult.ok =>
          /\ Len(FilenamesResult.errors) = 1
          /\ \A e \in Offending(prefix, catalog) :
                Contains(FilenamesResult.errors[1], e.name)

---------------------------------------------------------------------------
(* The claims.                                                             *)

\* C1: when validate() is over, it returned true iff all four checks returned
\* pass, and it returned false if at least one check returned a failure.
C1_ValidateIsConjunctionOfChecks ==
    ValidateOver =>
        /\ (ValidateReturned /\ ReturnValue)
              <=> (Len(results) = NumChecks /\ \A i \in 1..Len(results) : results[i].result.ok)
        /\ (\E i \in 1..Len(results) : ~results[i].result.ok)
              => (ValidateReturned /\ ~ReturnValue)

\* C2: when validate() is over, every enabled check has run and reported, in
\* the declared order, whatever the earlier checks found.
C2_EveryCheckRunsInOrder ==
    ValidateOver => [i \in 1..Len(results) |-> results[i].check] = DeclaredOrder

\* C3: an error raised by the construction of the Validator for one prefix does
\* not end the batch: the remaining prefixes are tested and the summary is
\* emitted.
C3_BadPrefixDoesNotBlockBatch ==
    (RunOver /\ Printed("Testing patient ") /\ ~Constructed)
        => (todo = <<>> /\ SummaryEmitted)

\* C4 (as stated): the filename-inventory check passes iff no regular file
\* matching the prefix has a name outside {prefix}_{suffix}.csv for the suffixes
\* of the canonical catalog, and otherwise fails with one message naming every
\* such file.
C4_FilenamesByCanonicalCatalog ==
    Acted(1) => FilenamesDecidedBy(CanonicalCatalog)

\* C4 (amended): the same with the catalog of the program, which is the
\* canonical catalog and the suffix enum.
C4_FilenamesByProgramCatalog ==
    Acted(1) => FilenamesDecidedBy(CanonicalCatalog \cup {"enum"})

\* C4 witness: the check failed in a directory that holds the enum table of the
\* prefix and more than one offending file.
C4_Witness ==
    /\ Acted(1)
    /\ ~FilenamesResult.ok
    /\ Cardinality(Offending(prefix, CanonicalCatalog \cup {"enum"})) >= 2
    /\ Lookup(fs, prefix \o "_enum.csv") # {}

\* C5: once the duplicate-header check has returned, it holds an error naming a
\* valid file iff the first two lines of that file are identical and non-empty.
C5_DoubleHeaderIffIdenticalNonEmpty ==
    (Constructed /\ step >= 3) =>
        \A e \in Range(validator.all_valid_files_on_disk) :
            ("Double header row found in file: " \o e.name) \in Range(results[3].result.errors)
                <=> LET first_line  == ReadLine(e.text, 1)
                        second_line == ReadLine(e.text, 1 + Len(first_line))
                    IN  first_line = second_line /\ first_line # ""

\* the demo table loads and its DISCH_DATE is a date of a year in [2000, now]
DischargeDateValid ==
    LET df == read_csv(fs, prefix \o "_demo.csv", <<>>)
        c  == ColumnIndex(df, "DISCH_DATE")
    IN  /\ df.raised = NoExc
        /\ c # 0
        /\ Len(df.rows) >= 1
        /\ IsDate(Cell(df, 1, c))
        /\ YearOf(Cell(df, 1, c)) \in MinYear..now_year

\* C6: once the discharge-date check has acted, it has returned a result (no
\* exception left it), and the result is pass iff the demo table loads and its
\* DISCH_DATE is a date of a year in [2000, current year].
C6_DischargeDateReturnsResult ==
    Acted(2) =>
        /\ step >= 2
        /\ results[2].result.ok <=> DischargeDateValid

\* table number t contributes an error to the null-date check: it does not
\* load, or a required column is absent from it or holds a null
ContributesError(t) ==
    LET entry == file_columns_to_check[t]
        df    == read_csv(fs, prefix \o "_" \o entry.suffix \o ".csv", <<>>)
    IN  \/ df.raised # NoExc
        \/ \E i \in 1..Len(entry.cols) :
              ColumnIndex(df, entry.cols[i]) = 0 \/ HasNull(df, entry.cols[i])

\* C7: once the null-date check has acted, it has returned a result (no
\* exception left it), and the result is pass iff no table of the mapping
\* contributed an error.
C7_NullDateVisitsEveryTable ==
    Acted(4) =>
        /\ step = NumChecks
        /\ results[4].result.ok
              <=> ~(\E t \in 1..Len(file_columns_to_check) : ContributesError(t))

\* the run is on the batch scenario and no prefix was given
BatchScenario == fs = Dir(ScenarioListing) /\ argv_prefix = <<>>

\* C8: on the batch scenario the discovered prefixes are exactly A and B, the
\* run ends with its summary, A is reported passed and B failed, and the
\* failed prefixes are exactly B.
C8_BatchScenario ==
    (BatchScenario /\ pc # "start") =>
        /\ Range(todo) \cup Attempted = {"A", "B"}
        /\ RunOver =>
              /\ pc = "done"
              /\ {returned[i] : i \in 1..Len(returned)}
                    = {[prefix |-> "A", passed |-> TRUE], [prefix |-> "B", passed |-> FALSE]}
              /\ failed_patients = <<"B">>

\* the error of __init__ that belongs to the state of the path
PathError ==
    IF fs.kind = "missing" THEN "AssertionError: Path does not exist: " \o fs.path
    ELSE IF fs.kind = "file" THEN "AssertionError: Path is not a directory: " \o fs.path
    ELSE "AssertionError: Path is empty: " \o fs.path

\* the path is missing, is not a directory, or is an empty directory
BadPath == fs.kind # "dir" \/ Len(fs.listing) = 0

\* C9: on a path that is missing, not a directory or an empty directory, the
\* construction of a Validator ends the run with the error of that
\* precondition; no inventory exists, no check has run, nothing was printed
\* by a check.
C9_ConstructionFailsFast ==
    (BadPath /\ Printed("Testing patient ")) =>
        /\ pc = "raised"
        /\ exc = PathError
        /\ ~Constructed
        /\ step = 0 /\ results = <<>> /\ returned = <<>>
        /\ ~Printed("Verifying") /\ ~Printed("Passed") /\ ~Printed("Failed")

\* C9 witness: construction was attempted on an empty directory and raised.
C9_Witness ==
    /\ fs.kind = "dir" /\ Len(fs.listing) = 0
    /\ Printed("Testing patient ")
    /\ exc = "AssertionError: Path is empty: export"

\* the prefixes of the patients the model's directories hold
PatientPrefixes == {"A_1", "A_10", "A", "B", "B_2"}

\* the file system without the catalog-conformant files of prefix q
WithoutFilesOf(q) ==
    [fs EXCEPT !.listing =
        SelectSeq(fs.listing,
                  LAMBDA e : ~Conformant(e.name, q, CanonicalCatalog \cup {"enum"}))]

\* C10: the inventory of the current prefix does not depend on the files of
\* another prefix q, and no conformant file of q is among its matching files.
C10_PrefixIsolation ==
    Constructed =>
        \A q \in PatientPrefixes \ {prefix} :
            /\ AllMatchingFiles(WithoutFilesOf(q), prefix) = validator.all_matching_files
            /\ \A e \in Range(validator.all_matching_files) :
                  ~Conformant(e.name, q, CanonicalCatalog \cup {"enum"})

=============================================================================
